---- MODULE Spec2Model ----
(***************************************************************************)
(* A model of OptionAgent (barl_simpleoptions/options_agent.py): the value *)
(* table, the execution stack of options, the two learners, the selector   *)
(* and the episode loop of run_agent.                                      *)
(*                                                                         *)
(* Floats are modelled as exact decimals.  Probabilities and random draws  *)
(* are percentages (0..100).                                               *)
(* A Python exception is the control state pc = "raised" with its name in  *)
(* the variable error.                                                     *)
(***************************************************************************)
EXTENDS Integers, Sequences, FiniteSets, TLC

(***************************************************************************)
(* Bounds of the model.                                                    *)
(***************************************************************************)
MaxSteps == 2
MaxEpisodes == 1
MaxTrajectory == 2

(***************************************************************************)
(* Exact decimal arithmetic.  Every number the agent computes is a finite  *)
(* decimal: rewards are integers and gamma, the learning rates and the     *)
(* termination probabilities are decimals.  A number is                    *)
(*     [neg |-> sign, mag |-> natural number, exp |-> e]                   *)
(* and stands for (+/-) mag * 10^(-e).  A natural number is the sequence   *)
(* of its digits in base 1000, least significant first, without leading    *)
(* zeros, so that no intermediate result leaves TLC's integer range.       *)
(* Numbers are kept in normal form (smallest exponent), so equal numbers   *)
(* are equal values.                                                       *)
(***************************************************************************)
Base == 1000

Digit(a, i) == IF i >= 1 /\ i <= Len(a) THEN a[i] ELSE 0

RECURSIVE NStrip(_)
NStrip(a) ==
    IF Len(a) > 0 /\ a[Len(a)] = 0 THEN NStrip(SubSeq(a, 1, Len(a) - 1)) ELSE a

NFromInt(n) ==
    NStrip(<<n % Base, (n \div Base) % Base, (n \div (Base * Base)) % Base>>)

NAdd(a, b) ==
    LET n == (IF Len(a) > Len(b) THEN Len(a) ELSE Len(b)) + 1
        carry[i \in 1 .. n] ==
            IF i = 1 THEN 0
            ELSE (Digit(a, i - 1) + Digit(b, i - 1) + carry[i - 1]) \div Base
    IN  NStrip([i \in 1 .. n |-> (Digit(a, i) + Digit(b, i) + carry[i]) % Base])

\* a - b for a >= b
NSub(a, b) ==
    LET n == Len(a)
        borrow[i \in 1 .. n + 1] ==
            IF i = 1 THEN 0
            ELSE IF Digit(a, i - 1) - Digit(b, i - 1) - borrow[i - 1] < 0 THEN 1 ELSE 0
    IN  NStrip([i \in 1 .. n |->
                   (Digit(a, i) - Digit(b, i) - borrow[i] + Base) % Base])

RECURSIVE NLessFrom(_, _, _)
NLessFrom(a, b, i) ==
    IF i = 0 THEN FALSE
    ELSE IF a[i] # b[i] THEN a[i] < b[i]
    ELSE NLessFrom(a, b, i - 1)

NLess(a, b) ==
    IF Len(a) # Len(b) THEN Len(a) < Len(b) ELSE NLessFrom(a, b, Len(a))

NMul(a, b) ==
    LET n == Len(a) + Len(b)
        column[k \in 1 .. n] ==
            LET RECURSIVE col(_)
                col(i) == IF i > k THEN 0 ELSE Digit(a, i) * Digit(b, k + 1 - i) + col(i + 1)
            IN  col(1)
        carry[k \in 1 .. n] ==
            IF k = 1 THEN 0 ELSE (column[k - 1] + carry[k - 1]) \div Base
    IN  NStrip([k \in 1 .. n |-> (column[k] + carry[k]) % Base])

NMul10(a) ==
    NStrip([i \in 1 .. Len(a) + 1 |->
               (Digit(a, i) % (Base \div 10)) * 10 + Digit(a, i - 1) \div (Base \div 10)])

\* a / 10 for a divisible by 10
NDiv10(a) ==
    NStrip([i \in 1 .. Len(a) |->
               Digit(a, i) \div 10 + (Digit(a, i + 1) % 10) * (Base \div 10)])

RECURSIVE NShift(_, _)
NShift(a, k) == IF k = 0 THEN a ELSE NShift(NMul10(a), k - 1)

RECURSIVE Norm(_)
Norm(x) ==
    IF Len(x.mag) = 0 THEN [neg |-> FALSE, mag |-> <<>>, exp |-> 0]
    ELSE IF x.exp > 0 /\ x.mag[1] % 10 = 0
    THEN Norm([neg |-> x.neg, mag |-> NDiv10(x.mag), exp |-> x.exp - 1])
    ELSE x

\* the decimal m * 10^(-e) for an integer m of at most nine digits
Dec(m, e) == Norm([neg |-> m < 0, mag |-> NFromInt(IF m < 0 THEN -m ELSE m), exp |-> e])

Zero == Dec(0, 0)
One == Dec(1, 0)
FromInt(n) == Dec(n, 0)
Percent(p) == Dec(p, 2)

RAdd(x, y) ==
    LET e == IF x.exp > y.exp THEN x.exp ELSE y.exp
        a == NShift(x.mag, e - x.exp)
        b == NShift(y.mag, e - y.exp)
    IN  IF x.neg = y.neg
        THEN Norm([neg |-> x.neg, mag |-> NAdd(a, b), exp |-> e])
        ELSE IF NLess(a, b)
        THEN Norm([neg |-> y.neg, mag |-> NSub(b, a), exp |-> e])
        ELSE Norm([neg |-> x.neg, mag |-> NSub(a, b), exp |-> e])

RNeg(x) == Norm([neg |-> ~x.neg, mag |-> x.mag, exp |-> x.exp])
RSub(x, y) == RAdd(x, RNeg(y))

RMul(x, y) ==
    Norm([neg |-> x.neg # y.neg, mag |-> NMul(x.mag, y.mag), exp |-> x.exp + y.exp])

RLess(x, y) == RSub(x, y).neg

RECURSIVE RPow(_, _)
RPow(x, n) == IF n = 0 THEN One ELSE RMul(x, RPow(x, n - 1))

RECURSIVE RMaxFrom(_, _, _)
RMaxFrom(xs, i, best) ==
    IF i > Len(xs) THEN best
    ELSE RMaxFrom(xs, i + 1, IF RLess(best, xs[i]) THEN xs[i] ELSE best)

\* Python's max() of a non-empty list: the first of the largest elements.
RMax(xs) == RMaxFrom(xs, 2, xs[1])

(***************************************************************************)
(* The agent's parameters (defaults of OptionAgent.__init__).              *)
(***************************************************************************)
gamma == Dec(9, 1)
macro_q_alpha == Dec(2, 1)
intra_option_alpha == Dec(2, 1)

(***************************************************************************)
(* The collaborators: a small environment and two options.                 *)
(***************************************************************************)
States == 0 .. 2
InitialState == 0
TerminalState == 2
Rewards == {0, 1}
Options == {"O1", "O2"}
Actions == {"a", "b"}
Terminations == {0, 50, 100}
Epsilons == {0, 15, 100}
\* random.random() returns a float in [0, 1): 0 is possible, 1 is not.
Draws == {0, 50, 99}

VARIABLES
    q_table,                    \* self.q_table: key -> value, keys created on write
    executing_options,          \* self.executing_options
    executing_options_states,   \* self.executing_options_states
    executing_options_rewards,  \* self.executing_options_rewards
    epsilon,                    \* self.epsilon, a percentage
    env,                        \* self.env: the options it offers and their behaviour
    num_episodes,               \* argument of run_agent
    episode,                    \* loop variable of run_agent
    episode_rewards,            \* local of run_agent, its return value
    state,                      \* local of run_agent
    terminal,                   \* local of run_agent
    selected_option,            \* local of run_agent
    pc,                         \* position in run_agent
    unwinding,                  \* TRUE in the terminal unwind loop, FALSE in the roll loop
    error,                      \* name of the exception raised, "none" otherwise
    steps,                      \* number of env.step calls so far
    step_log,                   \* rewards returned by env.step, per episode
    macro_call,                 \* the last macro_q_learn call: arguments and table writes
    intra_call,                 \* the last intra_option_learn call: arguments and backups
    stack_hist                  \* per active option: where it was pushed, learner calls so far

vars == <<q_table, executing_options, executing_options_states,
          executing_options_rewards, epsilon, env, num_episodes, episode,
          episode_rewards, state, terminal, selected_option, pc, unwinding,
          error, steps, step_log, macro_call, intra_call, stack_hist>>

agent == <<q_table, executing_options, executing_options_states,
           executing_options_rewards>>

(***************************************************************************)
(* Collaborator interfaces.                                                *)
(***************************************************************************)
\* isinstance(x, Option)
IsOption(x) == x \in Options

\* hash() of a state: distinct states have distinct hashes.
HashState(s) == 100 + s

\* hash() of an option or of a primitive action.  The option O2 hashes as
\* the primitive action b does (an option that wraps an action and borrows
\* its hash); all other hashes are distinct.
Hash(x) ==
    IF x = "O1" THEN 11
    ELSE IF x = "a" THEN 21
    ELSE 22

\* env.is_state_terminal(state)
is_state_terminal(s) == s = TerminalState

\* env.get_available_options(state)
get_available_options(s) == env.avail

\* option.initiation(state)
initiation(o, s) == o = "O1" \/ s # 1

\* option.policy(state)
policy(o, s) == env.pol[o]

\* option.termination(state), a percentage
termination(o, s) == env.term[o]

(***************************************************************************)
(* The value table.                                                        *)
(***************************************************************************)
Key(s, o) == <<HashState(s), Hash(o)>>

\* self.q_table.get(key, 0)
Get(q, key) == IF key \in DOMAIN q THEN q[key] ELSE Zero

\* self.q_table[key] = value
Put(q, key, value) ==
    [k \in (DOMAIN q) \cup {key} |-> IF k = key THEN value ELSE q[k]]

EmptyTable == [k \in {} |-> Zero]

(***************************************************************************)
(* _discounted_return: gamma_exp[i] = gamma^i, multiplied element-wise     *)
(* with the rewards and summed.  Sequences are 1-based here, so index i of *)
(* the code is position i + 1.                                             *)
(***************************************************************************)
\* A variant whose exponents run from 1 to num_rewards.
gamma_exp_from_one(num_rewards, g) == [i \in 1 .. num_rewards |-> RPow(g, i)]

gamma_exp(num_rewards, g) == [i \in 1 .. num_rewards |-> RPow(g, i - 1)]

multiply(rewards, exps) ==
    [i \in 1 .. Len(rewards) |-> RMul(FromInt(rewards[i]), exps[i])]

RECURSIVE sum(_)
sum(xs) == IF Len(xs) = 0 THEN Zero ELSE RAdd(sum(SubSeq(xs, 1, Len(xs) - 1)), xs[Len(xs)])

discounted_return(rewards, g) == sum(multiply(rewards, gamma_exp(Len(rewards), g)))

(***************************************************************************)
(* macro_q_learn.  The loop works on copies of the trajectory; q_values is *)
(* a local that is unbound until the non-terminal branch assigns it.  The  *)
(* result is the table, the keys written in order and the exception.       *)
(***************************************************************************)
Unbound == [bound |-> FALSE, items |-> <<>>]

RECURSIVE macro_q_loop(_, _, _, _, _, _, _)

\* A variant that discounts the bootstrap value by gamma once, whatever the
\* number of remaining rewards.
macro_q_loop_single_discount(q, state_trajectory, rewards, option, termination_state, q_values, writes) ==
    IF Len(state_trajectory) > 1 /\ ~is_state_terminal(termination_state)
    THEN LET initiation_state == state_trajectory[1]
             old_value == Get(q, Key(initiation_state, option))
             avail == get_available_options(termination_state)
             qv == [bound |-> TRUE,
                    items |-> [i \in 1 .. Len(avail) |->
                                  Get(q, Key(termination_state, avail[i]))]]
             new_value ==
                 RAdd(old_value,
                      RMul(macro_q_alpha,
                           RSub(RAdd(discounted_return(rewards, gamma),
                                     RMul(gamma, RMax(qv.items))),
                                old_value)))
         IN  macro_q_loop(Put(q, Key(initiation_state, option), new_value),
                          Tail(state_trajectory), Tail(rewards), option,
                          termination_state, qv,
                          Append(writes, Key(initiation_state, option)))
    ELSE IF Len(state_trajectory) > 1
    THEN [table |-> q, writes |-> writes, error |-> "UnboundLocalError"]
    ELSE [table |-> q, writes |-> writes, error |-> "none"]

macro_q_loop(q, state_trajectory, rewards, option, termination_state, q_values, writes) ==
    IF Len(state_trajectory) > 1
    THEN LET initiation_state == state_trajectory[1]
             old_value == Get(q, Key(initiation_state, option))
             discounted_sum_of_rewards == discounted_return(rewards, gamma)
             avail == get_available_options(termination_state)
             qv == IF ~is_state_terminal(termination_state)
                   THEN [bound |-> TRUE,
                         items |-> [i \in 1 .. Len(avail) |->
                                       Get(q, Key(termination_state, avail[i]))]]
                   ELSE IF ~q_values.bound THEN Unbound
                   ELSE [bound |-> TRUE, items |-> Append(q_values.items, Zero)]
         IN  IF ~qv.bound
             THEN [table |-> q, writes |-> writes, error |-> "UnboundLocalError"]
             ELSE LET new_value ==
                          RAdd(old_value,
                               RMul(macro_q_alpha,
                                    RSub(RAdd(discounted_sum_of_rewards,
                                              RMul(RPow(gamma, Len(rewards)), RMax(qv.items))),
                                         old_value)))
                  IN  macro_q_loop(Put(q, Key(initiation_state, option), new_value),
                                   Tail(state_trajectory), Tail(rewards), option,
                                   termination_state, qv,
                                   Append(writes, Key(initiation_state, option)))
    ELSE [table |-> q, writes |-> writes, error |-> "none"]

\* A variant that starts the suffixes one state late.
macro_q_learn_skip_first(q, state_trajectory, rewards, option) ==
    macro_q_loop(q, Tail(state_trajectory), Tail(rewards), option,
                 state_trajectory[Len(state_trajectory)], Unbound, <<>>)

\* A variant that runs the body of the loop once before testing the length.
macro_q_learn_at_least_once(q, state_trajectory, rewards, option) ==
    IF Len(state_trajectory) > 1
    THEN macro_q_loop(q, state_trajectory, rewards, option,
                      state_trajectory[Len(state_trajectory)], Unbound, <<>>)
    ELSE LET s == state_trajectory[1]
             old_value == Get(q, Key(s, option))
             avail == get_available_options(s)
             q_values == [i \in 1 .. Len(avail) |-> Get(q, Key(s, avail[i]))]
         IN  IF is_state_terminal(s)
             THEN [table |-> q, writes |-> <<>>, error |-> "UnboundLocalError"]
             ELSE [table |-> Put(q, Key(s, option),
                                 RAdd(old_value,
                                      RMul(macro_q_alpha,
                                           RSub(RMax(q_values), old_value)))),
                   writes |-> <<Key(s, option)>>,
                   error |-> "IndexError"]

macro_q_learn(q, state_trajectory, rewards, option) ==
    macro_q_loop(q, state_trajectory, rewards, option,
                 state_trajectory[Len(state_trajectory)], Unbound, <<>>)

(***************************************************************************)
(* intra_option_learn.  For each suffix start, every available option that *)
(* passes the condition of line 112 is backed up: the old value is read at *)
(* (initiation_state, other) and the write goes to (termination_state,     *)
(* other).                                                                 *)
(***************************************************************************)
\* the key read for old_value (line 116) and the key written (lines 134-135)
intra_old_key(initiation_state, termination_state, other_option) ==
    Key(initiation_state, other_option)

intra_write_key(initiation_state, termination_state, other_option) ==
    Key(termination_state, other_option)

intra_option_backup(q, initiation_state, termination_state, rewards, other_option) ==
    LET old_value == Get(q, intra_old_key(initiation_state, termination_state, other_option))
        discounted_sum_of_rewards == discounted_return(rewards, gamma)
        avail == get_available_options(termination_state)
        next_q_terminates ==
            RMul(Percent(termination(other_option, termination_state)),
                 RMax([i \in 1 .. Len(avail) |->
                          Get(q, Key(termination_state, avail[i]))]))
        next_q_continues ==
            RMul(RSub(One, Percent(termination(other_option, termination_state))),
                 Get(q, Key(termination_state, other_option)))
    IN  Put(q, intra_write_key(initiation_state, termination_state, other_option),
            RAdd(old_value,
                 RMul(intra_option_alpha,
                      RSub(RAdd(discounted_sum_of_rewards,
                                RMul(RPow(gamma, Len(rewards)),
                                     RAdd(next_q_continues, next_q_terminates))),
                           old_value))))

\* A variant of the condition of lines 112-114 that always holds.
policy_agrees_always(executed_option, initiation_state) == TRUE

\* hash(executed_option.policy(initiation_state)) == hash(executed_option)
policy_agrees(executed_option, initiation_state) ==
    Hash(policy(executed_option, initiation_state)) = Hash(executed_option)

\* The inner loop over the available options.  r is the table so far, the
\* backups made so far (states left in the suffix, option, key read, value
\* read, key written with its value before and after) and the exception; an
\* object that is not an Option has no initiation method.
RECURSIVE intra_option_others(_, _, _, _, _, _, _)
intra_option_others(r, others, i, state_trajectory, termination_state, rewards, executed_option) ==
    IF i > Len(others) \/ r.error # "none" THEN r
    ELSE LET other_option == others[i]
             initiation_state == state_trajectory[1]
             q == r.table
             q1 == intra_option_backup(q, initiation_state, termination_state,
                                       rewards, other_option)
             wkey == intra_write_key(initiation_state, termination_state, other_option)
             r1 == IF ~IsOption(other_option)
                   THEN [r EXCEPT !.error = "AttributeError"]
                   ELSE IF /\ initiation(other_option, initiation_state)
                           /\ policy_agrees(executed_option, initiation_state)
                   THEN [table |-> q1,
                         log |-> Append(r.log,
                                   [remaining |-> Len(state_trajectory),
                                    other |-> other_option,
                                    read |-> intra_old_key(initiation_state,
                                                           termination_state, other_option),
                                    old |-> Get(q, intra_old_key(initiation_state,
                                                   termination_state, other_option)),
                                    write |-> wkey,
                                    current |-> Get(q, wkey),
                                    new |-> q1[wkey]]),
                         error |-> "none"]
                   ELSE r
         IN  intra_option_others(r1, others, i + 1, state_trajectory, termination_state,
                                 rewards, executed_option)

RECURSIVE intra_option_loop(_, _, _, _, _)
intra_option_loop(r, state_trajectory, rewards, executed_option, termination_state) ==
    IF Len(state_trajectory) > 1 /\ r.error = "none"
    THEN intra_option_loop(
             intra_option_others(r, get_available_options(state_trajectory[1]), 1,
                                 state_trajectory, termination_state, rewards,
                                 executed_option),
             Tail(state_trajectory), Tail(rewards), executed_option, termination_state)
    ELSE r

intra_option_learn(q, state_trajectory, rewards, executed_option) ==
    intra_option_loop([table |-> q, log |-> <<>>, error |-> "none"],
                      state_trajectory, rewards, executed_option,
                      state_trajectory[Len(state_trajectory)])

(***************************************************************************)
(* select_action and _roll_termination.  The random draws are arguments.   *)
(***************************************************************************)
None == "None"

\* random.choice(seq): needs len(seq), which a generator does not have.
random_choice(arg) ==
    IF arg.kind = "list"
    THEN {[error |-> "none", value |-> arg.items[i]] : i \in 1 .. Len(arg.items)}
    ELSE {[error |-> "TypeError", value |-> None]}

\* A variant that follows the base policy whatever the stack holds.
select_action_base_only(q, stack, s, eps, draw) ==
    LET available_options == get_available_options(s)
    IN  IF draw < eps
        THEN random_choice([kind |-> "list", items |-> available_options])
        ELSE {[error |-> "TypeError", value |-> None]}

\* The set of results of select_action(s) when random.random() returns draw.
select_action(q, stack, s, eps, draw) ==
    IF Len(stack) = 0
    THEN LET available_options == get_available_options(s)
         IN  IF draw < eps
             THEN random_choice([kind |-> "list", items |-> available_options])
             ELSE LET q_values == [i \in 1 .. Len(available_options) |->
                                      Get(q, Key(s, available_options[i]))]
                  IN  {[error |-> r.error,
                        value |-> IF r.error = "none"
                                  THEN available_options[r.value] ELSE None] :
                       r \in random_choice([kind |-> "generator", items |-> q_values])}
    ELSE {[error |-> "none", value |-> policy(stack[Len(stack)], s)]}

\* _roll_termination(option, s) when random.random() returns draw.
roll_termination(option, s, draw) ==
    IF draw > termination(option, s) THEN FALSE ELSE TRUE

(***************************************************************************)
(* The state after construction, at the call of run_agent(num_episodes).   *)
(***************************************************************************)
\* An environment without options: its only available "option" is the
\* primitive action a itself.
FlatEnv ==
    [avail |-> <<"a">>,
     pol |-> [o \in Options |-> IF o = "O1" THEN "a" ELSE "b"],
     term |-> [o \in Options |-> 100]]

Envs ==
    [avail : {<<"O1">>, <<"O1", "O2">>},
     pol : {[o \in Options |-> IF o = "O1" THEN "a" ELSE x] : x \in {"b", "O1"}},
     term : [Options -> Terminations]]
    \cup {FlatEnv}

NoCall == [called |-> FALSE, states |-> <<>>, rewards |-> <<>>, option |-> None,
           before |-> EmptyTable, after |-> EmptyTable, writes |-> <<>>,
           error |-> "none"]

NoIntraCall == [called |-> FALSE, states |-> <<>>, rewards |-> <<>>, option |-> None,
                before |-> EmptyTable, after |-> EmptyTable, log |-> <<>>,
                error |-> "none"]

Init ==
    /\ q_table = EmptyTable
    /\ executing_options = <<>>
    /\ executing_options_states = <<>>
    /\ executing_options_rewards = <<>>
    /\ epsilon \in Epsilons
    /\ env \in Envs
    /\ num_episodes \in {0, MaxEpisodes}
    /\ episode = 0
    /\ episode_rewards = [e \in 1 .. num_episodes |-> <<>>]
    /\ state = InitialState
    /\ terminal = FALSE
    /\ selected_option = None
    /\ pc = "episode"
    /\ unwinding = FALSE
    /\ error = "none"
    /\ steps = 0
    /\ step_log = [e \in 1 .. num_episodes |-> <<>>]
    /\ macro_call = NoCall
    /\ intra_call = NoIntraCall
    /\ stack_hist = <<>>

Top(stack) == stack[Len(stack)]
Pop(stack) == SubSeq(stack, 1, Len(stack) - 1)

Raise(name) ==
    /\ pc' = "raised"
    /\ error' = name

(***************************************************************************)
(* run_agent, one action per step of its loops.                            *)
(***************************************************************************)
\* for episode in range(num_episodes): state = env.reset(); terminal = False
EpisodeLoop ==
    /\ pc = "episode"
    /\ IF episode < num_episodes
       THEN /\ state' = InitialState
            /\ terminal' = FALSE
            /\ pc' = "select"
       ELSE /\ pc' = "returned"
            /\ UNCHANGED <<state, terminal>>
    /\ UNCHANGED <<agent, epsilon, env, num_episodes, episode, episode_rewards,
                   selected_option, unwinding, error, steps, step_log, macro_call, intra_call, stack_hist>>

\* A variant whose table reads create the missing entries (setdefault).
SelectAction_setdefault ==
    /\ pc = "select"
    /\ \E draw \in Draws :
         \E r \in select_action(q_table, executing_options, state, epsilon, draw) :
            /\ IF r.error = "none"
               THEN /\ selected_option' = r.value
                    /\ pc' = "dispatch"
                    /\ UNCHANGED error
               ELSE /\ Raise(r.error)
                    /\ UNCHANGED selected_option
            /\ q_table' =
                   IF Len(executing_options) = 0 /\ ~(draw < epsilon)
                   THEN LET avail == get_available_options(state)
                        IN  [k \in (DOMAIN q_table) \cup
                                    {Key(state, avail[i]) : i \in 1 .. Len(avail)} |->
                                Get(q_table, k)]
                   ELSE q_table
    /\ UNCHANGED <<executing_options, executing_options_states,
                   executing_options_rewards, epsilon, env, num_episodes, episode,
                   episode_rewards, state, terminal, unwinding, steps, step_log,
                   macro_call, intra_call, stack_hist>>

\* selected_option = self.select_action(state)
SelectAction ==
    /\ pc = "select"
    /\ \E draw \in Draws :
         \E r \in select_action(q_table, executing_options, state, epsilon, draw) :
            IF r.error = "none"
            THEN /\ selected_option' = r.value
                 /\ pc' = "dispatch"
                 /\ UNCHANGED error
            ELSE /\ Raise(r.error)
                 /\ UNCHANGED selected_option
    /\ UNCHANGED <<agent, epsilon, env, num_episodes, episode, episode_rewards,
                   state, terminal, unwinding, steps, step_log, macro_call, intra_call, stack_hist>>

\* A variant that rolls for termination right after the push.
PushOption_rolls ==
    /\ pc = "dispatch"
    /\ IsOption(selected_option)
    /\ executing_options' = Append(executing_options, selected_option)
    /\ executing_options_states' = Append(executing_options_states, <<state>>)
    /\ executing_options_rewards' = Append(executing_options_rewards, <<>>)
    /\ stack_hist' = Append(stack_hist, [start_state |-> state, start_step |-> steps,
                                         macro_calls |-> 0, intra_calls |-> 0])
    /\ pc' = "roll"
    /\ UNCHANGED <<q_table, epsilon, env, num_episodes, episode, episode_rewards,
                   state, terminal, selected_option, unwinding, error, steps,
                   step_log, macro_call, intra_call>>

\* if isinstance(selected_option, Option): push it with a one-state trajectory
PushOption ==
    /\ pc = "dispatch"
    /\ IsOption(selected_option)
    /\ executing_options' = Append(executing_options, selected_option)
    /\ executing_options_states' = Append(executing_options_states, <<state>>)
    /\ executing_options_rewards' = Append(executing_options_rewards, <<>>)
    /\ stack_hist' = Append(stack_hist, [start_state |-> state, start_step |-> steps,
                                         macro_calls |-> 0, intra_calls |-> 0])
    /\ pc' = "terminal_check"
    /\ UNCHANGED <<q_table, epsilon, env, num_episodes, episode, episode_rewards,
                   state, terminal, selected_option, unwinding, error, steps,
                   step_log, macro_call, intra_call>>

\* A variant that records the reward for the top option only.
PrimitiveStep_reward_top_only ==
    /\ pc = "dispatch"
    /\ ~IsOption(selected_option)
    /\ steps < MaxSteps
    /\ \E next_state \in States, reward \in Rewards :
         /\ terminal' = is_state_terminal(next_state)
         /\ state' = next_state
         /\ episode_rewards' =
                [episode_rewards EXCEPT ![episode + 1] = Append(@, reward)]
         /\ step_log' = [step_log EXCEPT ![episode + 1] = Append(@, reward)]
         /\ executing_options_states' =
                [i \in 1 .. Len(executing_options) |->
                    Append(executing_options_states[i], next_state)]
         /\ executing_options_rewards' =
                [i \in 1 .. Len(executing_options) |->
                    IF i = Len(executing_options)
                    THEN Append(executing_options_rewards[i], reward)
                    ELSE executing_options_rewards[i]]
    /\ steps' = steps + 1
    /\ pc' = "roll"
    /\ UNCHANGED <<q_table, executing_options, epsilon, env, num_episodes, episode,
                   selected_option, unwinding, error, macro_call, intra_call, stack_hist>>

\* A variant in which only the option on top of the stack observes the step.
PrimitiveStep_top_only ==
    /\ pc = "dispatch"
    /\ ~IsOption(selected_option)
    /\ steps < MaxSteps
    /\ \E next_state \in States, reward \in Rewards :
         /\ terminal' = is_state_terminal(next_state)
         /\ state' = next_state
         /\ episode_rewards' =
                [episode_rewards EXCEPT ![episode + 1] = Append(@, reward)]
         /\ step_log' = [step_log EXCEPT ![episode + 1] = Append(@, reward)]
         /\ executing_options_states' =
                [i \in 1 .. Len(executing_options) |->
                    IF i = Len(executing_options)
                    THEN Append(executing_options_states[i], next_state)
                    ELSE executing_options_states[i]]
         /\ executing_options_rewards' =
                [i \in 1 .. Len(executing_options) |->
                    IF i = Len(executing_options)
                    THEN Append(executing_options_rewards[i], reward)
                    ELSE executing_options_rewards[i]]
    /\ steps' = steps + 1
    /\ pc' = "roll"
    /\ UNCHANGED <<q_table, executing_options, epsilon, env, num_episodes, episode,
                   selected_option, unwinding, error, macro_call, intra_call, stack_hist>>

\* else: step the environment and extend every active trajectory
PrimitiveStep ==
    /\ pc = "dispatch"
    /\ ~IsOption(selected_option)
    /\ steps < MaxSteps
    /\ \E next_state \in States, reward \in Rewards :
         /\ terminal' = is_state_terminal(next_state)
         /\ state' = next_state
         /\ episode_rewards' =
                [episode_rewards EXCEPT ![episode + 1] = Append(@, reward)]
         /\ step_log' = [step_log EXCEPT ![episode + 1] = Append(@, reward)]
         /\ executing_options_states' =
                [i \in 1 .. Len(executing_options) |->
                    Append(executing_options_states[i], next_state)]
         /\ executing_options_rewards' =
                [i \in 1 .. Len(executing_options) |->
                    Append(executing_options_rewards[i], reward)]
    /\ steps' = steps + 1
    /\ pc' = "roll"
    /\ UNCHANGED <<q_table, executing_options, epsilon, env, num_episodes, episode,
                   selected_option, unwinding, error, macro_call, intra_call, stack_hist>>

\* while self._roll_termination(self.executing_options[-1], next_state):
RollTermination ==
    /\ pc = "roll"
    /\ IF Len(executing_options) = 0
       THEN /\ Raise("IndexError")
            /\ UNCHANGED unwinding
       ELSE \E draw \in Draws :
              IF roll_termination(Top(executing_options), state, draw)
              THEN /\ pc' = "macro"
                   /\ unwinding' = FALSE
                   /\ UNCHANGED error
              ELSE /\ pc' = "terminal_check"
                   /\ UNCHANGED <<unwinding, error>>
    /\ UNCHANGED <<agent, epsilon, env, num_episodes, episode, episode_rewards,
                   state, terminal, selected_option, steps, step_log, macro_call, intra_call, stack_hist>>

\* A variant that consumes the stack's own lists instead of copies of them.
MacroQLearn_no_deepcopy ==
    /\ pc = "macro"
    /\ LET r == macro_q_learn(q_table, Top(executing_options_states),
                              Top(executing_options_rewards), Top(executing_options))
       IN  /\ q_table' = r.table
           /\ macro_call' = [called |-> TRUE,
                             states |-> Top(executing_options_states),
                             rewards |-> Top(executing_options_rewards),
                             option |-> Top(executing_options),
                             before |-> q_table,
                             after |-> r.table,
                             writes |-> r.writes,
                             error |-> r.error]
           /\ IF r.error = "none"
              THEN /\ pc' = "intra"
                   /\ UNCHANGED error
              ELSE Raise(r.error)
    /\ stack_hist' = [stack_hist EXCEPT ![Len(stack_hist)].macro_calls = @ + 1]
    /\ executing_options_states' =
           [executing_options_states EXCEPT ![Len(executing_options_states)] =
               SubSeq(@, Len(@), Len(@))]
    /\ executing_options_rewards' =
           [executing_options_rewards EXCEPT ![Len(executing_options_rewards)] = <<>>]
    /\ UNCHANGED <<executing_options, epsilon, env, num_episodes, episode,
                   episode_rewards, state, terminal, selected_option, unwinding,
                   steps, step_log, intra_call>>

\* self.macro_q_learn(states[-1], rewards[-1], options[-1])
MacroQLearn ==
    /\ pc = "macro"
    /\ LET r == macro_q_learn(q_table, Top(executing_options_states),
                              Top(executing_options_rewards), Top(executing_options))
       IN  /\ q_table' = r.table
           /\ macro_call' = [called |-> TRUE,
                             states |-> Top(executing_options_states),
                             rewards |-> Top(executing_options_rewards),
                             option |-> Top(executing_options),
                             before |-> q_table,
                             after |-> r.table,
                             writes |-> r.writes,
                             error |-> r.error]
           /\ IF r.error = "none"
              THEN /\ pc' = "intra"
                   /\ UNCHANGED error
              ELSE Raise(r.error)
    /\ stack_hist' = [stack_hist EXCEPT ![Len(stack_hist)].macro_calls = @ + 1]
    /\ UNCHANGED <<executing_options, executing_options_states,
                   executing_options_rewards, epsilon, env, num_episodes, episode,
                   episode_rewards, state, terminal, selected_option, unwinding,
                   steps, step_log, intra_call>>

\* self.intra_option_learn(states[-1], rewards[-1], options[-1])
IntraOptionLearn ==
    /\ pc = "intra"
    /\ LET r == intra_option_learn(q_table, Top(executing_options_states),
                                   Top(executing_options_rewards),
                                   Top(executing_options))
       IN  /\ q_table' = r.table
           /\ intra_call' = [called |-> TRUE,
                             states |-> Top(executing_options_states),
                             rewards |-> Top(executing_options_rewards),
                             option |-> Top(executing_options),
                             before |-> q_table,
                             after |-> r.table,
                             log |-> r.log,
                             error |-> r.error]
           /\ IF r.error = "none"
              THEN /\ pc' = "pop"
                   /\ UNCHANGED error
              ELSE Raise(r.error)
    /\ stack_hist' = [stack_hist EXCEPT ![Len(stack_hist)].intra_calls = @ + 1]
    /\ UNCHANGED <<executing_options, executing_options_states,
                   executing_options_rewards, epsilon, env, num_episodes, episode,
                   episode_rewards, state, terminal, selected_option, unwinding,
                   steps, step_log, macro_call>>

\* the three pop() calls that end the body of either learning loop
PopOption ==
    /\ pc = "pop"
    /\ executing_options_states' = Pop(executing_options_states)
    /\ executing_options_rewards' = Pop(executing_options_rewards)
    /\ executing_options' = Pop(executing_options)
    /\ stack_hist' = Pop(stack_hist)
    /\ pc' = IF unwinding THEN "unwind" ELSE "roll"
    /\ UNCHANGED <<q_table, epsilon, env, num_episodes, episode, episode_rewards,
                   state, terminal, selected_option, unwinding, error, steps,
                   step_log, macro_call, intra_call>>

\* if terminal: ... ; otherwise back to the head of `while not terminal`
TerminalCheck ==
    /\ pc = "terminal_check"
    /\ pc' = IF terminal THEN "unwind" ELSE "select"
    /\ UNCHANGED <<agent, epsilon, env, num_episodes, episode, episode_rewards,
                   state, terminal, selected_option, unwinding, error, steps,
                   step_log, macro_call, intra_call, stack_hist>>

\* while len(self.executing_options) > 0: learn and pop; then the next episode
Unwind ==
    /\ pc = "unwind"
    /\ IF Len(executing_options) > 0
       THEN /\ pc' = "macro"
            /\ unwinding' = TRUE
            /\ UNCHANGED episode
       ELSE /\ pc' = "episode"
            /\ episode' = episode + 1
            /\ UNCHANGED unwinding
    /\ UNCHANGED <<agent, epsilon, env, num_episodes, episode_rewards, state,
                   terminal, selected_option, error, steps, step_log, macro_call, intra_call, stack_hist>>

Next ==
    \/ EpisodeLoop
    \/ SelectAction
    \/ PushOption
    \/ PrimitiveStep
    \/ RollTermination
    \/ MacroQLearn
    \/ IntraOptionLearn
    \/ PopOption
    \/ TerminalCheck
    \/ Unwind

Spec == Init /\ [][Next]_vars

(***************************************************************************)
(* The two learners called on their own: the arguments are drawn at the    *)
(* start, held as a one-option stack, and each learner is called once, in  *)
(* either order, through the same operators as the calls of run_agent.     *)
(***************************************************************************)
Trajectories == UNION {[1 .. n -> States] : n \in 1 .. MaxTrajectory}

RewardLists(n) == [1 .. n -> Rewards]

LearnerEnvs == {e \in Envs : e.avail = <<"O1", "O2">> /\ e.pol["O2"] = "b"}

LearnerTables == {EmptyTable} \cup {Put(EmptyTable, Key(s, "O1"), One) : s \in States}

InitLearners ==
    /\ q_table \in LearnerTables
    /\ env \in LearnerEnvs
    /\ \E state_trajectory \in Trajectories, option \in Options :
         \E rewards \in RewardLists(Len(state_trajectory) - 1) :
            /\ executing_options = <<option>>
            /\ executing_options_states = <<state_trajectory>>
            /\ executing_options_rewards = <<rewards>>
            /\ state = state_trajectory[Len(state_trajectory)]
            /\ stack_hist = <<[start_state |-> state_trajectory[1], start_step |-> 0,
                               macro_calls |-> 0, intra_calls |-> 0]>>
    /\ terminal = is_state_terminal(state)
    /\ epsilon = 15
    /\ num_episodes = 0
    /\ episode = 0
    /\ episode_rewards = <<>>
    /\ selected_option = None
    /\ pc = "direct"
    /\ unwinding = FALSE
    /\ error = "none"
    /\ steps = 0
    /\ step_log = <<>>
    /\ macro_call = NoCall
    /\ intra_call = NoIntraCall

\* agent.macro_q_learn(state_trajectory, rewards, option)
CallMacroQLearn ==
    /\ pc = "direct"
    /\ Top(stack_hist).macro_calls = 0
    /\ LET r == macro_q_learn(q_table, Top(executing_options_states),
                              Top(executing_options_rewards), Top(executing_options))
       IN  /\ q_table' = r.table
           /\ macro_call' = [called |-> TRUE,
                             states |-> Top(executing_options_states),
                             rewards |-> Top(executing_options_rewards),
                             option |-> Top(executing_options),
                             before |-> q_table,
                             after |-> r.table,
                             writes |-> r.writes,
                             error |-> r.error]
           /\ IF r.error = "none"
              THEN UNCHANGED <<pc, error>>
              ELSE Raise(r.error)
    /\ stack_hist' = [stack_hist EXCEPT ![Len(stack_hist)].macro_calls = @ + 1]
    /\ UNCHANGED <<executing_options, executing_options_states,
                   executing_options_rewards, epsilon, env, num_episodes, episode,
                   episode_rewards, state, terminal, selected_option, unwinding,
                   steps, step_log, intra_call>>

\* agent.intra_option_learn(state_trajectory, rewards, executed_option)
CallIntraOptionLearn ==
    /\ pc = "direct"
    /\ Top(stack_hist).intra_calls = 0
    /\ LET r == intra_option_learn(q_table, Top(executing_options_states),
                                   Top(executing_options_rewards),
                                   Top(executing_options))
       IN  /\ q_table' = r.table
           /\ intra_call' = [called |-> TRUE,
                             states |-> Top(executing_options_states),
                             rewards |-> Top(executing_options_rewards),
                             option |-> Top(executing_options),
                             before |-> q_table,
                             after |-> r.table,
                             log |-> r.log,
                             error |-> r.error]
           /\ IF r.error = "none"
              THEN UNCHANGED <<pc, error>>
              ELSE Raise(r.error)
    /\ stack_hist' = [stack_hist EXCEPT ![Len(stack_hist)].intra_calls = @ + 1]
    /\ UNCHANGED <<executing_options, executing_options_states,
                   executing_options_rewards, epsilon, env, num_episodes, episode,
                   episode_rewards, state, terminal, selected_option, unwinding,
                   steps, step_log, macro_call>>

NextLearners ==
    \/ CallMacroQLearn
    \/ CallIntraOptionLearn

SpecLearners == InitLearners /\ [][NextLearners]_vars

TypeOK ==
    /\ pc \in {"episode", "select", "dispatch", "roll", "macro", "intra", "pop",
               "terminal_check", "unwind", "raised", "returned", "direct"}
    /\ error \in {"none", "TypeError", "IndexError", "UnboundLocalError",
                "AttributeError"}
    /\ steps \in 0 .. MaxSteps

(***************************************************************************)
(* Properties.                                                             *)
(***************************************************************************)
Depth == Len(executing_options)

\* run_agent has stopped: it returned or an exception left it.
Stopped == pc \in {"returned", "raised"}

\* C1: once env.step has reported terminal, every option on the stack is
\* learned from and popped: run_agent never ends the episode, nor stops,
\* with an option left on one of the three lists.
C1_TerminalUnwindsStack ==
    (terminal /\ pc \in {"episode", "returned", "raised"}) =>
        /\ Len(executing_options) = 0
        /\ Len(executing_options_states) = 0
        /\ Len(executing_options_rewards) = 0

\* C2: at every decision point (a call of select_action or of a learner) the
\* three lists of the stack have the same length and every active option
\* has exactly one more state than it has rewards.
C2_StackShape ==
    pc \in {"select", "macro", "intra"} =>
        /\ Len(executing_options_states) = Len(executing_options)
        /\ Len(executing_options_rewards) = Len(executing_options)
        /\ \A i \in 1 .. Len(executing_options) :
              Len(executing_options_states[i]) = Len(executing_options_rewards[i]) + 1

\* A learner is called on a stack of two options after a termination and a
\* second push: the lower option has seen two steps, the upper one step.
C2_Witness ==
    /\ pc = "macro"
    /\ Len(executing_options) = 2
    /\ Len(executing_options_states[1]) = 3
    /\ Len(executing_options_states[2]) = 2

\* C3: a macro_q_learn call on s_0..s_n (n >= 1) performs exactly n table
\* writes, the k-th to the key (s_k, option), and writes no other key.
C3_MacroWritesEverySuffix ==
    (macro_call.called /\ Len(macro_call.states) >= 2) =>
        /\ macro_call.writes =
               [k \in 1 .. Len(macro_call.states) - 1 |->
                   Key(macro_call.states[k], macro_call.option)]
        /\ \A key \in (DOMAIN macro_call.after) \cup (DOMAIN macro_call.before) :
              (\A k \in 1 .. Len(macro_call.states) - 1 :
                  key # Key(macro_call.states[k], macro_call.option))
              => /\ key \in DOMAIN macro_call.before
                 /\ key \in DOMAIN macro_call.after
                 /\ macro_call.after[key] = macro_call.before[key]

\* The scenario of C4: the only available option always selects the
\* primitive action "a" and terminates with probability 1; one primitive
\* step has been taken, with reward 1 into a non-terminal state.
C4_Scenario ==
    /\ env.avail = <<"O1">>
    /\ env.pol["O1"] = "a"
    /\ env.term["O1"] = 100
    /\ gamma = Dec(9, 1)
    /\ macro_q_alpha = Dec(2, 1)
    /\ steps = 1
    /\ step_log = <<<<1>>>>
    /\ ~terminal

\* C4: in that scenario, once the step's termination and learning have
\* run, the table holds Q(s0, option) = 0.2.
C4_FirstStepValue ==
    (C4_Scenario /\ pc \notin {"macro"} /\ ~(pc = "roll" /\ Depth > 0)) =>
        Get(q_table, Key(InitialState, "O1")) = Dec(2, 1)

C4_Witness ==
    /\ C4_Scenario
    /\ macro_call.called
    /\ macro_call.states = <<InitialState, 1>>
    /\ Depth = 0

\* select_action has just been called on an empty stack.
SelectedOnEmptyStack ==
    /\ Len(executing_options) = 0
    /\ \/ pc = "dispatch"
       \/ pc = "raised" /\ error = "TypeError"

\* C5: with epsilon = 0 and an empty stack, select_action returns an
\* available option whose table entry at the state is maximal.
C5_GreedySelection ==
    (epsilon = 0 /\ SelectedOnEmptyStack) =>
        /\ pc = "dispatch"
        /\ \E i \in 1 .. Len(get_available_options(state)) :
              selected_option = get_available_options(state)[i]
        /\ \A i \in 1 .. Len(get_available_options(state)) :
              ~RLess(Get(q_table, Key(state, selected_option)),
                     Get(q_table, Key(state, get_available_options(state)[i])))

\* C6: a call of select_action changes neither the value table (its keys
\* included) nor any of the three lists of the stack.
C6_SelectActionFrame ==
    [][pc = "select" =>
          /\ q_table' = q_table
          /\ DOMAIN q_table' = DOMAIN q_table
          /\ executing_options' = executing_options
          /\ executing_options_states' = executing_options_states
          /\ executing_options_rewards' = executing_options_rewards]_vars

\* The greedy branch has read the entries of a table without keys.
C6_Witness ==
    /\ pc = "raised"
    /\ error = "TypeError"
    /\ epsilon = 15
    /\ DOMAIN q_table = {}

\* C7 as stated: the stack grows only when it was empty at the selection.
C7_PushOnlyOnEmptyStack ==
    [][Len(executing_options') > Len(executing_options) =>
          Len(executing_options) = 0]_vars

\* C7, amended: the stack grows only by pushing the Option that
\* select_action returned, by exactly one; on an empty stack that option is
\* one of the available options (base policy), on a non-empty stack it is
\* the sub-option selected by the policy of the top option.  A primitive
\* decision never grows the stack.
C7_PushOnlySelectedOption ==
    [][Len(executing_options') > Len(executing_options) =>
          /\ pc = "dispatch"
          /\ IsOption(selected_option)
          /\ executing_options' = Append(executing_options, selected_option)
          /\ Len(executing_options) = 0 =>
                \E i \in 1 .. Len(get_available_options(state)) :
                    selected_option = get_available_options(state)[i]
          /\ Len(executing_options) > 0 =>
                selected_option = policy(Top(executing_options), state)]_vars

\* An option was pushed by delegation, on top of the option that selected it.
C7_Witness ==
    /\ Len(executing_options) = 2
    /\ executing_options[2] = policy(executing_options[1], state)
    /\ Len(executing_options_states[2]) = 1

\* The reward sequences a learner hands to _discounted_return, and their
\* tails: every suffix of the reward trajectory of the option being learned.
RewardSuffixes ==
    IF pc \in {"macro", "intra"}
    THEN {SubSeq(Top(executing_options_rewards), k, Len(Top(executing_options_rewards))) :
             k \in 1 .. Len(Top(executing_options_rewards)) + 1}
    ELSE {}

\* C8: _discounted_return is 0 on the empty sequence, r on [r], and
\* satisfies the decomposition law r_0 + gamma * return of the rest.
C8_DiscountedReturnLaw ==
    \A rs \in RewardSuffixes :
        /\ Len(rs) = 0 => discounted_return(rs, gamma) = Zero
        /\ Len(rs) = 1 => discounted_return(rs, gamma) = FromInt(rs[1])
        /\ Len(rs) >= 1 =>
              discounted_return(rs, gamma) =
                  RAdd(FromInt(rs[1]), RMul(gamma, discounted_return(Tail(rs), gamma)))

\* A learner runs on an option that has collected two rewards, the later
\* one non-zero.
C8_Witness ==
    /\ pc = "macro"
    /\ Len(Top(executing_options_rewards)) = 2
    /\ Top(executing_options_rewards)[2] = 1
    /\ discounted_return(Top(executing_options_rewards), gamma) =
           RAdd(FromInt(Top(executing_options_rewards)[1]), gamma)

\* C9: run_agent stops by returning, and what it returns is one reward
\* sequence per episode, holding the rewards of that episode's env.step
\* calls in order.
C9_ReturnsEpisodeRewards ==
    Stopped =>
        /\ pc = "returned"
        /\ Len(episode_rewards) = num_episodes
        /\ episode_rewards = step_log

\* The table a terminal macro_q_learn call should leave: every suffix is
\* backed up towards its discounted return, with bootstrap value 0.
RECURSIVE TerminalBackups(_, _, _, _)
TerminalBackups(q, states, rewards, option) ==
    IF Len(states) > 1
    THEN LET old == Get(q, Key(states[1], option))
             G == discounted_return(rewards, gamma)
         IN  TerminalBackups(
                 Put(q, Key(states[1], option),
                     RAdd(old, RMul(macro_q_alpha, RSub(G, old)))),
                 Tail(states), Tail(rewards), option)
    ELSE q

\* C10: a macro_q_learn call whose last state is terminal completes
\* without error and backs every suffix up with bootstrap value 0.
C10_TerminalBootstrapZero ==
    (/\ macro_call.called
     /\ Len(macro_call.states) >= 2
     /\ is_state_terminal(macro_call.states[Len(macro_call.states)])) =>
        /\ macro_call.error = "none"
        /\ macro_call.after =
               TerminalBackups(macro_call.before, macro_call.states,
                               macro_call.rewards, macro_call.option)

\* The table a macro_q_learn call with a non-terminal last state s_n should
\* leave: for k = 0 .. n-1 in this order, Q(s_k, option) moves by
\* macro_alpha towards G_k + gamma^(n-k) * M, with G_k the discounted return
\* of r_k .. r_(n-1) and M the largest current value at s_n.
RECURSIVE SuffixBackups(_, _, _, _, _)
SuffixBackups(q, k, states, rewards, option) ==
    LET n == Len(states) - 1
    IN  IF k >= n THEN q
        ELSE LET old == Get(q, Key(states[k + 1], option))
                 G == discounted_return(SubSeq(rewards, k + 1, n), gamma)
                 avail == get_available_options(states[n + 1])
                 M == RMax([i \in 1 .. Len(avail) |->
                               Get(q, Key(states[n + 1], avail[i]))])
                 target == RAdd(G, RMul(RPow(gamma, n - k), M))
             IN  SuffixBackups(
                     Put(q, Key(states[k + 1], option),
                         RAdd(old, RMul(macro_q_alpha, RSub(target, old)))),
                     k + 1, states, rewards, option)

\* C11: a macro_q_learn call whose last state is not terminal applies, for
\* k = 0 .. n-1 in increasing order, the update
\* Q(s_k, option) <- old + macro_alpha * (G_k + gamma^(n-k) * M - old).
C11_NonTerminalBackups ==
    (/\ macro_call.called
     /\ Len(macro_call.states) >= 2
     /\ ~is_state_terminal(macro_call.states[Len(macro_call.states)])) =>
        /\ macro_call.error = "none"
        /\ macro_call.after =
               SuffixBackups(macro_call.before, 0, macro_call.states,
                             macro_call.rewards, macro_call.option)

\* A call on a trajectory of two steps whose bootstrap value is not zero.
C11_Witness ==
    /\ macro_call.called
    /\ Len(macro_call.states) = 3
    /\ macro_call.rewards[1] = 1
    /\ ~is_state_terminal(macro_call.states[3])
    /\ \E i \in 1 .. Len(env.avail) :
          Get(macro_call.before, Key(macro_call.states[3], env.avail[i])) # Zero

\* C12: in every intra_option_learn backup the value used as old is the
\* current entry of the key the backup writes, and that key is (s_n, other)
\* with s_n the last state of the trajectory.
C12_IntraOldIsWrittenKey ==
    intra_call.called =>
        \A j \in 1 .. Len(intra_call.log) :
            LET e == intra_call.log[j]
            IN  /\ e.write = Key(intra_call.states[Len(intra_call.states)], e.other)
                /\ e.read = e.write
                /\ e.old = e.current

\* The number of backups an intra_option_learn call made for the suffix
\* start k (0-based) and the option other.
IntraBackupCount(k, other) ==
    Cardinality({j \in 1 .. Len(intra_call.log) :
                    /\ intra_call.log[j].remaining = Len(intra_call.states) - k
                    /\ intra_call.log[j].other = other})

C14_AllLevelsObserveStep ==
    /\ [](pc \in {"select", "macro", "intra"} =>
            /\ \A i, j \in 1 .. Len(executing_options_states) :
                  i < j => Len(executing_options_states[i]) >=
                           Len(executing_options_states[j])
            /\ \A i \in 1 .. Len(executing_options_states) :
                  executing_options_states[i][Len(executing_options_states[i])] = state)
    /\ [][(pc = "dispatch" /\ pc' = "roll") =>
            /\ Len(executing_options_states') = Len(executing_options)
            /\ Len(executing_options_rewards') = Len(executing_options)
            /\ \A i \in 1 .. Len(executing_options) :
                  /\ executing_options_states'[i] =
                         Append(executing_options_states[i], state')
                  /\ executing_options_rewards'[i] =
                         Append(executing_options_rewards[i],
                                step_log'[episode + 1][Len(step_log'[episode + 1])])]_vars

\* A decision point after two steps with two nested options, the lower one
\* pushed one step before the upper one.
C14_Witness ==
    /\ pc = "select"
    /\ Len(executing_options) = 2
    /\ Len(executing_options_states[1]) = 3
    /\ Len(executing_options_rewards[1]) = 2
    /\ Len(executing_options_states[2]) = 2
    /\ executing_options_states[1][2] # executing_options_states[1][3]

\* C15: an option that is popped has had macro_q_learn and then
\* intra_option_learn invoked exactly once each, both on its complete
\* trajectory from the state where it was pushed to the current state; and
\* neither learner changes the three lists of the stack.
C15_LearnedOnceBeforePop ==
    [][/\ (pc = "pop" /\ pc' # "pop") =>
            LET h == Top(stack_hist)
                traj == Top(executing_options_states)
            IN  /\ h.macro_calls = 1
                /\ h.intra_calls = 1
                /\ macro_call.states = traj
                /\ intra_call.states = traj
                /\ macro_call.rewards = Top(executing_options_rewards)
                /\ intra_call.rewards = Top(executing_options_rewards)
                /\ macro_call.option = Top(executing_options)
                /\ intra_call.option = Top(executing_options)
                /\ traj[1] = h.start_state
                /\ traj[Len(traj)] = state
                /\ Len(traj) = steps - h.start_step + 1
                /\ Len(executing_options') = Len(executing_options) - 1
       /\ (pc = "intra" /\ pc' # "intra") =>
            /\ Top(stack_hist).macro_calls = 1
            /\ Top(stack_hist).intra_calls = 0
       /\ (pc \in {"macro", "intra"}) =>
            UNCHANGED <<executing_options, executing_options_states,
                        executing_options_rewards>>]_vars

\* An option pushed in the initial state is about to be popped after two
\* steps, both learners having run on its three-state trajectory.
C15_Witness ==
    /\ pc = "pop"
    /\ Len(executing_options) = 1
    /\ Len(Top(executing_options_states)) = 3
    /\ Top(stack_hist).macro_calls = 1
    /\ Top(stack_hist).intra_calls = 1
    /\ intra_call.states = Top(executing_options_states)

\* C16: after a primitive step into a non-terminal state the termination
\* draws go from the top of the stack downwards, and when no option is left
\* the loop stops without error and the next decision is taken.
C16_RollStopsOnEmptyStack ==
    [][(/\ pc = "roll"
        /\ ~terminal
        /\ intra_call.called
        /\ Len(executing_options) = 0
        /\ pc' # "roll") =>
            /\ pc' = "terminal_check"
            /\ error' = "none"]_vars

\* C17: macro_q_learn and intra_option_learn called with a trajectory of a
\* single state and an empty reward list leave the value table unchanged and
\* raise no error.
C17_SingleStateNoUpdate ==
    /\ (macro_call.called /\ Len(macro_call.states) = 1 /\ Len(macro_call.rewards) = 0) =>
            /\ macro_call.error = "none"
            /\ macro_call.after = macro_call.before
            /\ macro_call.writes = <<>>
    /\ (intra_call.called /\ Len(intra_call.states) = 1 /\ Len(intra_call.rewards) = 0) =>
            /\ intra_call.error = "none"
            /\ intra_call.after = intra_call.before
            /\ intra_call.log = <<>>

\* Both learners have been called on a single non-terminal state whose
\* table entry for the option is not zero.
C17_Witness ==
    /\ macro_call.called
    /\ intra_call.called
    /\ macro_call.states = <<InitialState>>
    /\ intra_call.states = <<InitialState>>
    /\ macro_call.option = "O1"
    /\ Get(macro_call.before, Key(InitialState, "O1")) = One
    /\ q_table = macro_call.before

\* C18: when select_action has returned a primitive action on an empty
\* stack, the step is followed without error by the terminal test and the
\* next decision; no termination roll fails on the empty stack.
C18_PrimitiveOnEmptyStack ==
    [][(/\ pc = "roll"
        /\ ~IsOption(selected_option)
        /\ ~macro_call.called
        /\ stack_hist = <<>>
        /\ Len(executing_options) = 0) =>
            /\ pc' = "terminal_check"
            /\ error' = "none"]_vars

\* C19: every call run_agent makes to a learner passes at least two states
\* and at least one reward.
C19_LearnersGetAStep ==
    pc \in {"macro", "intra"} =>
        /\ Len(Top(executing_options_states)) >= 2
        /\ Len(Top(executing_options_rewards)) >= 1

\* The intra-option learner is called for the upper of two options that
\* were pushed before the same single step.
C19_Witness ==
    /\ pc = "intra"
    /\ Len(executing_options) = 2
    /\ Len(executing_options_states[1]) = 2
    /\ Len(Top(executing_options_states)) = 2
    /\ Len(Top(executing_options_rewards)) = 1

\* C20: the termination roll of an option whose termination(state) is 1
\* always terminates it, and that of an option whose termination(state) is
\* 0 never does, whatever the draw in [0, 1).
C20_RollIsBernoulli ==
    [][(pc = "roll" /\ Len(executing_options) > 0) =>
            /\ termination(Top(executing_options), state) = 100 => pc' = "macro"
            /\ termination(Top(executing_options), state) = 0 => pc' # "macro"]_vars

====
